---- MODULE Spec2Model ----
(***************************************************************************)
(* Attendance Tracker Pro: the attendance state machine (time-in and       *)
(* time-out handlers), the record store kept in localStorage, the session  *)
(* held by the Auth module and the in-memory offline queue.                *)
(*                                                                         *)
(* Time is counted in whole seconds since local midnight of day 0.  A      *)
(* calendar date string (DD/MM/YYYY) is represented by its day number and  *)
(* a formatted time (HH:mm:ss) by the triple <<hours, minutes, seconds>>.  *)
(* A stored record is a function from field names to values, so that the   *)
(* object spread {...a, ...b} of the source is the operator Spread.        *)
(***************************************************************************)
EXTENDS Integers, Sequences, FiniteSets, TLC

(* ------------------------------ bounds --------------------------------- *)
MaxRecords == 2
MaxQueue == 2
MaxInflight == 1
MaxDay == 1
NumUsers == 2
MaxLoginsInFlight == 2
MaxStatRecords == 4
MaxStatDay == 3
DaysPerMonth == 3

(* ------------------------- program constants --------------------------- *)
StartTime == <<9, 0>>
EndTime == <<17, 0>>
LateThreshold == 15
EarlyLeaveThreshold == 30
GeoFenceRadius == 1000
MsPerMinute == 60000

SecondsPerDay == 24 * 60 * 60

null == -1
NoUser == 0
NoRecord == [absent |-> TRUE]
Users == 1..NumUsers

HMS(h, m, s) == (h * 60 + m) * 60 + s

(* Times of day at which the clock is read. *)
ClockTimes == { HMS(9, 15, 30), HMS(9, 16, 0), HMS(16, 29, 30), HMS(16, 30, 0) }

\* The instants at which the clock is read: each time of day on day 0, and
\* the first of them on every later day.
Instants ==
  ClockTimes \cup { d * SecondsPerDay + HMS(9, 15, 30) : d \in 1..MaxDay }

(* Outcomes of navigator.geolocation.getCurrentPosition: a position at some *)
(* distance (metres) from the office, or one of the three errors.           *)
LocationOutcomes ==
  { [ ok |-> TRUE, distance |-> d ] : d \in { 0, GeoFenceRadius, GeoFenceRadius + 1 } }
    \cup { [ ok |-> FALSE, error |-> e ] :
             e \in { "locationDenied", "locationUnavailable", "locationTimeout" } }

(* Outcomes of one face detection and comparison. *)
FaceOutcomes == { "noFace", "multipleFaces", "notMatched", "matched" }

(* Outcomes of the face registration modal. *)
ModalOutcomes == { "cancel", "noFace", "multipleFaces", "oneFace" }

Labels == { "in_loc", "in_cam", "in_verify", "in_modal", "in_retry", "out_loc", "out_cam" }

VARIABLES
  records,              \* localStorage 'attendance_records'
  todayRecord,          \* Attendance.todayRecord
  offlineQueue,         \* Attendance.offlineQueue
  currentUser,          \* Auth.currentUser (user id)
  storedUser,           \* localStorage 'attendance_user'
  token,                \* localStorage 'attendance_token' is present
  userFaceDescriptor,   \* Camera.userFaceDescriptor is set
  faceRecognition,      \* CONFIG.FEATURES.faceRecognition
  online,               \* navigator.onLine
  onlineEvent,          \* an 'online' event is queued for dispatch
  clock,                \* the system clock
  pending,              \* handler activations suspended at each await
  toasts,               \* messages shown by the last step
  loginAttempts,        \* Auth.loginAttempts
  loginPending          \* activations of Auth.handleLogin suspended at the delay

vars == << records, todayRecord, offlineQueue, currentUser, storedUser, token,
           userFaceDescriptor, faceRecognition, online, onlineEvent, clock, pending,
           toasts, loginAttempts, loginPending >>

(* ------------------------------ Utils ---------------------------------- *)

\* Utils.formatDate: the local calendar date of a timestamp.
FormatDate(t) == t \div SecondsPerDay

\* Utils.formatTime: local HH:mm:ss.
FormatTime(t) ==
  LET sod == t % SecondsPerDay
  IN  << sod \div 3600, (sod \div 60) % 60, sod % 60 >>

\* JavaScript remainder: the sign follows the dividend.
JsRem(a, n) == IF a >= 0 THEN a % n ELSE 0 - ((0 - a) % n)

\* Utils.calculateTimeDifference
CalculateTimeDifference(startTime, endTime) ==
  LET diffMs == (endTime - startTime) * 1000
      diffMins == diffMs \div MsPerMinute
  IN  [ hours |-> diffMins \div 60,
        minutes |-> JsRem(diffMins, 60),
        totalMinutes |-> diffMins ]

\* A variant of Utils.isLate that counts the threshold minute itself as late.
IsLateAtThreshold(actualTime, scheduledTime, threshold) ==
  LET actualMins == actualTime[1] * 60 + actualTime[2]
      schedMins == scheduledTime[1] * 60 + scheduledTime[2]
  IN  actualMins >= (schedMins + threshold)

\* Utils.isLate
IsLate(actualTime, scheduledTime, threshold) ==
  LET actualMins == actualTime[1] * 60 + actualTime[2]
      schedMins == scheduledTime[1] * 60 + scheduledTime[2]
  IN  actualMins > (schedMins + threshold)

\* A variant of Utils.isWithinGeofence that leaves the radius itself outside.
IsWithinGeofenceStrict(distance, radius) == distance < radius

\* Utils.isWithinGeofence, on the computed distance.
IsWithinGeofence(distance, radius) == distance <= radius

\* Attendance.isEarlyLeave
IsEarlyLeave(timeString) ==
  LET totalMinutes == timeString[1] * 60 + timeString[2]
      endTotalMinutes == EndTime[1] * 60 + EndTime[2]
  IN  totalMinutes < (endTotalMinutes - EarlyLeaveThreshold)

(* ----------------------------- Storage --------------------------------- *)

\* Object spread { ...a, ...b }.
Spread(a, b) ==
  [ k \in DOMAIN a \cup DOMAIN b |-> IF k \in DOMAIN b THEN b[k] ELSE a[k] ]

\* Array.findIndex on the record id: 0 when there is none.
FindIndex(recs, id) ==
  IF \E i \in 1..Len(recs) : recs[i].id = id
    THEN CHOOSE i \in 1..Len(recs) :
           /\ recs[i].id = id
           /\ \A j \in 1..(i - 1) : recs[j].id # id
    ELSE 0

\* A variant of Storage.saveAttendanceRecord that keeps one record per day:
\* it writes over the latest record when that one has the date of the new one.
SaveAttendanceRecordOnePerDay(recs, record, ok) ==
  IF ~ ok THEN recs
  ELSE IF Len(recs) > 0 /\ recs[Len(recs)].date = record.date
    THEN [ recs EXCEPT ![Len(recs)] = record ]
    ELSE Append(recs, record)

\* Storage.saveAttendanceRecord; ok is the outcome of Storage.setItem.
SaveAttendanceRecord(recs, record, ok) ==
  IF ok THEN Append(recs, record) ELSE recs

\* A variant of Storage.updateAttendanceRecord that, when no record has the
\* id, writes the updates over the latest record.
UpdateAttendanceRecordLatestOnMiss(recs, id, updates, ok) ==
  IF ~ ok \/ recs = << >> THEN recs
  ELSE IF \E i \in 1..Len(recs) : recs[i].id = id
    THEN [ recs EXCEPT ![CHOOSE i \in 1..Len(recs) :
                           /\ recs[i].id = id
                           /\ \A j \in 1..(i - 1) : recs[j].id # id] =
                         [ k \in DOMAIN @ \cup DOMAIN updates |->
                             IF k \in DOMAIN updates THEN updates[k] ELSE @[k] ] ]
    ELSE [ recs EXCEPT ![Len(recs)] =
                         [ k \in DOMAIN @ \cup DOMAIN updates |->
                             IF k \in DOMAIN updates THEN updates[k] ELSE @[k] ] ]

\* Storage.updateAttendanceRecord: its return value ...
UpdateSucceeds(recs, id, ok) == FindIndex(recs, id) # 0 /\ ok

\* ... and the stored collection afterwards.
UpdateAttendanceRecord(recs, id, updates, ok) ==
  IF UpdateSucceeds(recs, id, ok)
    THEN [ recs EXCEPT ![FindIndex(recs, id)] = Spread(@, updates) ]
    ELSE recs

\* A variant of Storage.getTodayAttendance that returns the first record of
\* today.
GetTodayAttendanceFirst(recs, now) ==
  IF \E i \in 1..Len(recs) : recs[i].date = FormatDate(now)
    THEN recs[CHOOSE i \in 1..Len(recs) :
                /\ recs[i].date = FormatDate(now)
                /\ \A j \in 1..(i - 1) : recs[j].date # FormatDate(now)]
    ELSE NoRecord

\* Storage.getTodayAttendance
GetTodayAttendance(recs, now) ==
  LET today == FormatDate(now)
      todayRecords == SelectSeq(recs, LAMBDA r : r.date = today)
  IN  IF Len(todayRecords) = 0 THEN NoRecord
      ELSE todayRecords[Len(todayRecords)]

\* Utils.generateId: an identifier no stored record carries.
GenerateId(recs) == Len(recs) + 1

(* ------------------------------- Auth ---------------------------------- *)

\* Auth.isAuthenticated.  Sessions are shorter than CONFIG.SECURITY
\* .tokenExpiration, so that Storage.getToken returns the token it finds.
IsAuthenticated == currentUser # NoUser /\ token

(* ---------------------------- Attendance ------------------------------- *)

InFlight ==
  pending["in_loc"] + pending["in_cam"] + pending["in_verify"] + pending["in_modal"]
    + pending["in_retry"] + pending["out_loc"] + pending["out_cam"]

Suspend(l) == [ pending EXCEPT ![l] = @ + 1 ]
Resume(l) == [ pending EXCEPT ![l] = @ - 1 ]
Move(from, to) == [ pending EXCEPT ![from] = @ - 1, ![to] = @ + 1 ]

\* A variant of Attendance.syncAttendance that writes the whole entry back
\* to the store with the flag set.
SyncAttendanceWritingEntry(recs, record, ok) ==
  UpdateAttendanceRecord(recs, record.id,
                         [ k \in DOMAIN record |->
                             IF k = "synced" THEN TRUE ELSE record[k] ],
                         ok)

\* Attendance.syncAttendance: the store after the sync of one record.
SyncAttendance(recs, record, ok) ==
  UpdateAttendanceRecord(recs, record.id, [ synced |-> TRUE ], ok)

\* The loop of Attendance.syncOfflineQueue over the snapshot of the queue.
RECURSIVE SyncAll(_, _, _)
SyncAll(recs, queue, oks) ==
  IF queue = << >> THEN recs
  ELSE SyncAll(SyncAttendance(recs, Head(queue), Head(oks)), Tail(queue), Tail(oks))

(* ------------------------------- Auth ---------------------------------- *)

\* CONFIG.SECURITY
MaxLoginAttempts == 5
LockoutDuration == 15

\* lockoutTime of Auth.isAccountLocked, in seconds.
LockoutTime == LockoutDuration * 60

\* No entry of Auth.loginAttempts for an email.  An entry the code holds has
\* a count of at least 1.
NoAttempts == [ count |-> 0, lastAttempt |-> null ]

\* Auth.recordFailedLogin
RecordFailedLogin(attempts, email, now) ==
  [ attempts EXCEPT ![email] = [ count |-> @.count + 1, lastAttempt |-> now ] ]

\* Auth.clearFailedLogins
ClearFailedLogins(attempts, email) == [ attempts EXCEPT ![email] = NoAttempts ]

\* Auth.isAccountLocked: its return value ...
IsAccountLocked(attempts, email, now) ==
  /\ attempts[email].count >= MaxLoginAttempts
  /\ now - attempts[email].lastAttempt < LockoutTime

\* ... and Auth.loginAttempts afterwards: an expired lockout is cleared.
AfterLockCheck(attempts, email, now) ==
  IF /\ attempts[email].count >= MaxLoginAttempts
     /\ ~ (now - attempts[email].lastAttempt < LockoutTime)
    THEN ClearFailedLogins(attempts, email)
    ELSE attempts

Init ==
  /\ records = << >>
  /\ todayRecord = NoRecord
  /\ offlineQueue = << >>
  /\ currentUser = NoUser
  /\ storedUser = NoUser
  /\ token = FALSE
  /\ userFaceDescriptor = FALSE
  /\ faceRecognition \in BOOLEAN
  /\ online \in BOOLEAN
  /\ onlineEvent = FALSE
  /\ clock = HMS(9, 15, 30)
  /\ pending = [ l \in Labels |-> 0 ]
  /\ toasts = << >>
  /\ loginAttempts = [ e \in Users |-> NoAttempts ]
  /\ loginPending = [ a \in Users \X BOOLEAN |-> 0 ]

\* The record built by Attendance.handleTimeIn.
NewAttendanceRecord(now, faceVerified) ==
  [ id |-> GenerateId(records),
    userId |-> currentUser,
    date |-> FormatDate(now),
    timeIn |-> now,
    timeOut |-> null,
    faceVerified |-> faceVerified,
    status |-> IF IsLate(FormatTime(now), StartTime, LateThreshold)
                 THEN "late" ELSE "present",
    synced |-> FALSE ]

\* A variant of the tail of handleTimeIn that caches the new record as
\* todayRecord before it looks at the outcome of the save.
PersistTimeInCachingFirst(faceVerified, okSave) ==
  IF currentUser = NoUser
    THEN /\ toasts' = << "unknownError" >>
         /\ UNCHANGED << records, todayRecord, offlineQueue >>
    ELSE /\ todayRecord' =
              [ id |-> Len(records) + 1,
                userId |-> currentUser,
                date |-> FormatDate(clock),
                timeIn |-> clock,
                timeOut |-> null,
                faceVerified |-> faceVerified,
                status |-> IF IsLate(FormatTime(clock), StartTime, LateThreshold)
                             THEN "late" ELSE "present",
                synced |-> FALSE ]
         /\ records' = IF okSave THEN Append(records, todayRecord') ELSE records
         /\ offlineQueue' = IF okSave /\ ~ online
                              THEN Append(offlineQueue, todayRecord')
                              ELSE offlineQueue
         /\ toasts' = IF ~ okSave THEN << "saveFailed" >>
                      ELSE IF online THEN << "checkinSuccess" >>
                      ELSE << "checkinSuccess", "savedOffline" >>

\* The tail of Attendance.handleTimeIn, from `const now = new Date()`:
\* build the record, save it, cache it, then sync or queue it.
\* okSave is the outcome of Storage.setItem in saveAttendanceRecord and
\* okSync that of the write of syncAttendance, which probes localStorage
\* again and can be refused after the save was accepted.
PersistTimeIn(faceVerified, okSave) ==
  IF currentUser = NoUser
    THEN \* Auth.getCurrentUser() is null: TypeError, caught by the handler
         /\ toasts' = << "unknownError" >>
         /\ UNCHANGED << records, todayRecord, offlineQueue >>
    ELSE LET attendanceRecord == NewAttendanceRecord(clock, faceVerified)
             saved == SaveAttendanceRecord(records, attendanceRecord, okSave)
         IN  IF okSave
               THEN /\ todayRecord' = attendanceRecord
                    /\ IF online
                         THEN /\ \E okSync \in BOOLEAN :
                                   records' = SyncAttendance(saved, attendanceRecord, okSync)
                              /\ offlineQueue' = offlineQueue
                              /\ toasts' = << "checkinSuccess" >>
                         ELSE /\ records' = saved
                              /\ offlineQueue' = Append(offlineQueue, attendanceRecord)
                              /\ toasts' = << "checkinSuccess", "savedOffline" >>
               ELSE /\ toasts' = << "saveFailed" >>
                    /\ UNCHANGED << records, todayRecord, offlineQueue >>

\* Activations of handleTimeIn, and of handleTimeOut, suspended at an await.
InFlightIn ==
  pending["in_loc"] + pending["in_cam"] + pending["in_verify"] + pending["in_modal"]
    + pending["in_retry"]

InFlightOut == pending["out_loc"] + pending["out_cam"]

\* A variant of Attendance.validateLocation that accepts every position it
\* gets, whatever its distance.
LocationValidAnyDistance(loc) == loc.ok

\* Attendance.validateLocation over Location.validateGeofence.
LocationValid(loc) == loc.ok /\ IsWithinGeofence(loc.distance, GeoFenceRadius)

\* The toasts shown when validateLocation returns false.
LocationToasts(loc) ==
  IF loc.ok THEN << "distanceAway", "outsideGeofence" >>
  ELSE << "locationError", "outsideGeofence" >>

\* The queue can take the record a handler may add to it.
QueueHasRoom == online \/ Len(offlineQueue) < MaxQueue

\* Click on Time In: the authentication guard, then await validateLocation.
TimeInClick ==
  /\ InFlightIn < MaxInflight
  /\ Len(records) + InFlightIn < MaxRecords
  /\ IF IsAuthenticated
       THEN /\ pending' = Suspend("in_loc")
            /\ toasts' = << >>
       ELSE /\ toasts' = << "loginFirst" >>
            /\ pending' = pending
  /\ UNCHANGED << records, todayRecord, offlineQueue, currentUser, storedUser, token,
                  userFaceDescriptor, faceRecognition, loginAttempts, loginPending,
                  online, onlineEvent, clock >>

\* validateLocation resolves in handleTimeIn with the outcome loc.
TimeInLocationStep(loc, okSave) ==
  /\ pending["in_loc"] > 0
  /\ QueueHasRoom
  /\ IF ~ LocationValid(loc)
       THEN /\ pending' = Resume("in_loc")
            /\ toasts' = LocationToasts(loc)
            /\ UNCHANGED << records, todayRecord, offlineQueue >>
       ELSE IF faceRecognition
         THEN /\ pending' = Move("in_loc", "in_cam")
              /\ toasts' = << >>
              /\ UNCHANGED << records, todayRecord, offlineQueue >>
         ELSE /\ pending' = Resume("in_loc")
              /\ PersistTimeIn(FALSE, okSave)
  /\ UNCHANGED << currentUser, storedUser, token, userFaceDescriptor,
                  faceRecognition, loginAttempts, loginPending,
                  online, onlineEvent, clock >>

TimeInLocation ==
  \E loc \in LocationOutcomes, okSave \in BOOLEAN : TimeInLocationStep(loc, okSave)

\* Camera.startCamera resolves in handleTimeIn.  When the camera did not
\* start, the face block is skipped and the handler goes on to the record.
TimeInCameraStep(cameraStarted, okSave) ==
  /\ pending["in_cam"] > 0
  /\ QueueHasRoom
  /\ IF cameraStarted
       THEN /\ pending' = Move("in_cam", "in_verify")
            /\ toasts' = << >>
            /\ UNCHANGED << records, todayRecord, offlineQueue >>
       ELSE /\ pending' = Resume("in_cam")
            /\ PersistTimeIn(FALSE, okSave)
  /\ UNCHANGED << currentUser, storedUser, token, userFaceDescriptor,
                  faceRecognition, loginAttempts, loginPending,
                  online, onlineEvent, clock >>

TimeInCamera ==
  \E cameraStarted \in BOOLEAN, okSave \in BOOLEAN :
    TimeInCameraStep(cameraStarted, okSave)

\* The delay and Camera.performFaceVerification resolve in handleTimeIn.
TimeInVerifyStep(face, okSave) ==
  /\ pending["in_verify"] > 0
  /\ QueueHasRoom
  /\ IF ~ userFaceDescriptor
       THEN \* requiresRegistration: Camera.showFaceModal
            /\ pending' = Move("in_verify", "in_modal")
            /\ toasts' = << >>
            /\ UNCHANGED << records, todayRecord, offlineQueue >>
       ELSE IF face = "matched"
         THEN /\ pending' = Resume("in_verify")
              /\ PersistTimeIn(TRUE, okSave)
         ELSE /\ pending' = Resume("in_verify")
              /\ toasts' = << face >>
              /\ UNCHANGED << records, todayRecord, offlineQueue >>
  /\ UNCHANGED << currentUser, storedUser, token, userFaceDescriptor,
                  faceRecognition, loginAttempts, loginPending,
                  online, onlineEvent, clock >>

TimeInVerify ==
  \E face \in FaceOutcomes, okSave \in BOOLEAN : TimeInVerifyStep(face, okSave)

\* Camera.showFaceModal resolves: Camera.registerFace, or a cancel.
TimeInModal ==
  /\ pending["in_modal"] > 0
  /\ \E modal \in ModalOutcomes :
       LET registered == modal = "oneFace"
       IN  /\ userFaceDescriptor' = (userFaceDescriptor \/ registered)
           /\ IF registered
                THEN /\ pending' = Move("in_modal", "in_retry")
                     /\ toasts' = << >>
                ELSE /\ pending' = Resume("in_modal")
                     /\ toasts' = << "faceRegistrationRequired" >>
  /\ UNCHANGED << records, todayRecord, offlineQueue, currentUser, storedUser, token,
                  faceRecognition, loginAttempts, loginPending, online, onlineEvent,
                  clock >>

\* The second Camera.performFaceVerification, after registration.
TimeInRetryStep(face, okSave) ==
  /\ pending["in_retry"] > 0
  /\ QueueHasRoom
  /\ pending' = Resume("in_retry")
  /\ IF userFaceDescriptor /\ face = "matched"
       THEN PersistTimeIn(TRUE, okSave)
       ELSE /\ toasts' = << face >>
            /\ UNCHANGED << records, todayRecord, offlineQueue >>
  /\ UNCHANGED << currentUser, storedUser, token, userFaceDescriptor,
                  faceRecognition, loginAttempts, loginPending,
                  online, onlineEvent, clock >>

TimeInRetry ==
  \E face \in FaceOutcomes, okSave \in BOOLEAN : TimeInRetryStep(face, okSave)

\* A variant of `updates` that escalates the status at every early leave,
\* whatever the status was.
TimeOutUpdatesAnyStatus(today, now) ==
  LET workDuration == CalculateTimeDifference(today.timeIn, now)
      isEarlyLeave == IsEarlyLeave(FormatTime(now))
      updates == [ timeOut |-> now,
                   workHours |-> workDuration.hours,
                   workMinutes |-> workDuration.minutes,
                   totalWorkMinutes |-> workDuration.totalMinutes,
                   earlyLeave |-> isEarlyLeave,
                   synced |-> FALSE ]
  IN  IF isEarlyLeave
        THEN Spread(updates, [ status |-> "early_leave" ])
        ELSE updates

\* A variant of `updates` that always writes the status: early_leave at an
\* early leave, present otherwise.
TimeOutUpdatesResetStatus(today, now) ==
  LET workDuration == CalculateTimeDifference(today.timeIn, now)
      isEarlyLeave == IsEarlyLeave(FormatTime(now))
  IN  [ timeOut |-> now,
        workHours |-> workDuration.hours,
        workMinutes |-> workDuration.minutes,
        totalWorkMinutes |-> workDuration.totalMinutes,
        earlyLeave |-> isEarlyLeave,
        synced |-> FALSE,
        status |-> IF isEarlyLeave THEN "early_leave" ELSE "present" ]

\* A variant of `updates` that measures the work from the first stored
\* time-in instead of the time-in of the record being closed.
TimeOutUpdatesFirstTimeIn(today, now) ==
  LET workDuration == CalculateTimeDifference(records[1].timeIn, now)
      isEarlyLeave == IsEarlyLeave(FormatTime(now))
      updates == [ timeOut |-> now,
                   workHours |-> workDuration.hours,
                   workMinutes |-> workDuration.minutes,
                   totalWorkMinutes |-> workDuration.totalMinutes,
                   earlyLeave |-> isEarlyLeave,
                   synced |-> FALSE ]
  IN  IF isEarlyLeave /\ today.status = "present"
        THEN Spread(updates, [ status |-> "early_leave" ])
        ELSE updates

\* A variant of `updates` that marks the record synced at the time-out.
TimeOutUpdatesSynced(today, now) ==
  LET workDuration == CalculateTimeDifference(today.timeIn, now)
      isEarlyLeave == IsEarlyLeave(FormatTime(now))
      updates == [ timeOut |-> now,
                   workHours |-> workDuration.hours,
                   workMinutes |-> workDuration.minutes,
                   totalWorkMinutes |-> workDuration.totalMinutes,
                   earlyLeave |-> isEarlyLeave,
                   synced |-> TRUE ]
  IN  IF isEarlyLeave /\ today.status = "present"
        THEN Spread(updates, [ status |-> "early_leave" ])
        ELSE updates

\* The object `updates` built by Attendance.handleTimeOut.
TimeOutUpdates(today, now) ==
  LET timeString == FormatTime(now)
      workDuration == CalculateTimeDifference(today.timeIn, now)
      isEarlyLeave == IsEarlyLeave(timeString)
      updates == [ timeOut |-> now,
                   workHours |-> workDuration.hours,
                   workMinutes |-> workDuration.minutes,
                   totalWorkMinutes |-> workDuration.totalMinutes,
                   earlyLeave |-> isEarlyLeave,
                   synced |-> FALSE ]
  IN  IF isEarlyLeave /\ today.status = "present"
        THEN Spread(updates, [ status |-> "early_leave" ])
        ELSE updates

\* The tail of Attendance.handleTimeOut, from `const now = new Date()`.
\* okUpdate is the outcome of Storage.setItem in updateAttendanceRecord.
PersistTimeOut(okUpdate) ==
  IF todayRecord = NoRecord
    THEN \* this.todayRecord is null: TypeError, caught by the handler
         /\ toasts' = << "unknownError" >>
         /\ UNCHANGED << records, todayRecord, offlineQueue >>
    ELSE LET updates == TimeOutUpdates(todayRecord, clock)
             updated == UpdateAttendanceRecord(records, todayRecord.id, updates, okUpdate)
             merged == Spread(todayRecord, updates)
         IN  IF UpdateSucceeds(records, todayRecord.id, okUpdate)
               THEN /\ todayRecord' = merged
                    /\ IF online
                         THEN /\ \E okSync \in BOOLEAN :
                                   records' = SyncAttendance(updated, merged, okSync)
                              /\ offlineQueue' = offlineQueue
                              /\ toasts' = << "checkoutSuccess" >>
                         ELSE /\ records' = updated
                              /\ offlineQueue' = Append(offlineQueue, merged)
                              /\ toasts' = << "checkoutSuccess", "savedOffline" >>
               ELSE /\ toasts' = << "updateFailed" >>
                    /\ UNCHANGED << records, todayRecord, offlineQueue >>

\* The guard of handleTimeOut on the cached record.
HasTimeIn(today) == today # NoRecord /\ today.timeIn # null

\* Click on Time Out: the authentication guard, the check of the cached
\* record, then await validateLocation.
TimeOutClick ==
  /\ InFlightOut < MaxInflight
  /\ IF ~ IsAuthenticated
       THEN /\ toasts' = << "loginFirst" >>
            /\ pending' = pending
       ELSE IF ~ HasTimeIn(todayRecord)
         THEN /\ toasts' = << "notCheckedIn" >>
              /\ pending' = pending
         ELSE /\ toasts' = << >>
              /\ pending' = Suspend("out_loc")
  /\ UNCHANGED << records, todayRecord, offlineQueue, currentUser, storedUser, token,
                  userFaceDescriptor, faceRecognition, loginAttempts, loginPending,
                  online, onlineEvent, clock >>

\* validateLocation resolves in handleTimeOut with the outcome loc.
TimeOutLocationStep(loc, okUpdate) ==
  /\ pending["out_loc"] > 0
  /\ QueueHasRoom
  /\ IF ~ LocationValid(loc)
       THEN /\ pending' = Resume("out_loc")
            /\ toasts' = LocationToasts(loc)
            /\ UNCHANGED << records, todayRecord, offlineQueue >>
       ELSE IF faceRecognition
         THEN /\ pending' = Move("out_loc", "out_cam")
              /\ toasts' = << >>
              /\ UNCHANGED << records, todayRecord, offlineQueue >>
         ELSE /\ pending' = Resume("out_loc")
              /\ PersistTimeOut(okUpdate)
  /\ UNCHANGED << currentUser, storedUser, token, userFaceDescriptor,
                  faceRecognition, loginAttempts, loginPending,
                  online, onlineEvent, clock >>

TimeOutLocation ==
  \E loc \in LocationOutcomes, okUpdate \in BOOLEAN : TimeOutLocationStep(loc, okUpdate)

\* Camera.startCamera (and the delay when it started) resolve in
\* handleTimeOut: the photo is optional, the time-out goes on either way.
TimeOutCameraStep(okUpdate) ==
  /\ pending["out_cam"] > 0
  /\ QueueHasRoom
  /\ pending' = Resume("out_cam")
  /\ PersistTimeOut(okUpdate)
  /\ UNCHANGED << currentUser, storedUser, token, userFaceDescriptor,
                  faceRecognition, loginAttempts, loginPending,
                  online, onlineEvent, clock >>

TimeOutCamera == \E okUpdate \in BOOLEAN : TimeOutCameraStep(okUpdate)

\* Attendance.syncOfflineQueue
SyncOfflineQueue ==
  IF Len(offlineQueue) = 0
    THEN /\ toasts' = << >>
         /\ UNCHANGED << records, offlineQueue >>
    ELSE \E oks \in [ 1..Len(offlineQueue) -> BOOLEAN ] :
           /\ records' = SyncAll(records, offlineQueue, oks)
           /\ offlineQueue' = << >>
           /\ toasts' = << "allSynced" >>

\* Connectivity returns: navigator.onLine turns true and an 'online' event
\* is queued.
GoOnline ==
  /\ ~ online
  /\ online' = TRUE
  /\ onlineEvent' = TRUE
  /\ toasts' = << >>
  /\ UNCHANGED << records, todayRecord, offlineQueue, currentUser, storedUser, token,
                  userFaceDescriptor, faceRecognition, loginAttempts, loginPending,
                  clock, pending >>

\* Connectivity is lost; the listener only shows a toast.
GoOffline ==
  /\ online
  /\ online' = FALSE
  /\ onlineEvent' = FALSE
  /\ toasts' = << >>
  /\ UNCHANGED << records, todayRecord, offlineQueue, currentUser, storedUser, token,
                  userFaceDescriptor, faceRecognition, loginAttempts, loginPending,
                  clock, pending >>

\* The 'online' listener of setupOfflineSupport.
OnlineEvent ==
  /\ onlineEvent
  /\ onlineEvent' = FALSE
  /\ SyncOfflineQueue
  /\ UNCHANGED << todayRecord, currentUser, storedUser, token, userFaceDescriptor,
                  faceRecognition, loginAttempts, loginPending, online, clock,
                  pending >>

\* The interval callback of setupOfflineSupport.
PollSync ==
  /\ IF online /\ Len(offlineQueue) > 0
       THEN SyncOfflineQueue
       ELSE /\ toasts' = << >>
            /\ UNCHANGED << records, offlineQueue >>
  /\ UNCHANGED << todayRecord, currentUser, storedUser, token, userFaceDescriptor,
                  faceRecognition, loginAttempts, loginPending, online, onlineEvent,
                  clock, pending >>

\* A successful Auth.handleLogin of user u.
Login(u) ==
  /\ currentUser = NoUser
  /\ ~ IsAccountLocked(loginAttempts, u, clock)
  /\ currentUser' = u
  /\ storedUser' = u
  /\ token' = TRUE
  /\ loginAttempts' = ClearFailedLogins(loginAttempts, u)
  /\ toasts' = << >>
  /\ UNCHANGED << records, todayRecord, offlineQueue, userFaceDescriptor,
                  faceRecognition, loginPending, online, onlineEvent, clock, pending >>

\* Auth.handleLogout, confirmed.
Logout ==
  /\ currentUser # NoUser
  /\ currentUser' = NoUser
  /\ storedUser' = NoUser
  /\ token' = FALSE
  /\ toasts' = << >>
  /\ UNCHANGED << records, todayRecord, offlineQueue, userFaceDescriptor,
                  faceRecognition, loginAttempts, loginPending, online, onlineEvent,
                  clock, pending >>

\* Attendance.loadTodayAttendance, on navigation to the attendance page.
LoadTodayAttendance ==
  /\ currentUser # NoUser
  /\ todayRecord' = GetTodayAttendance(records, clock)
  /\ toasts' = << >>
  /\ UNCHANGED << records, offlineQueue, currentUser, storedUser, token,
                  userFaceDescriptor, faceRecognition, loginAttempts, loginPending,
                  online, onlineEvent, clock, pending >>

\* A variant of the page load that rebuilds the offline queue from the
\* stored records that are not synced.
ReloadRebuildingQueue ==
  /\ currentUser' = IF storedUser # NoUser /\ token THEN storedUser ELSE NoUser
  /\ todayRecord' = GetTodayAttendance(records, clock)
  /\ offlineQueue' = SelectSeq(records, LAMBDA r : ~ r.synced)
  /\ pending' = [ l \in Labels |-> 0 ]
  /\ onlineEvent' = FALSE
  /\ toasts' = << >>
  /\ loginAttempts' = [ e \in Users |-> NoAttempts ]
  /\ loginPending' = [ a \in Users \X BOOLEAN |-> 0 ]
  /\ UNCHANGED << records, storedUser, token, userFaceDescriptor, faceRecognition,
                  online, clock >>

\* The page is loaded again: Auth.init, Camera.init and Attendance.init run
\* on fresh module objects over the same localStorage.
Reload ==
  /\ currentUser' = IF storedUser # NoUser /\ token THEN storedUser ELSE NoUser
  /\ todayRecord' = GetTodayAttendance(records, clock)
  /\ offlineQueue' = << >>
  /\ pending' = [ l \in Labels |-> 0 ]
  /\ onlineEvent' = FALSE
  /\ toasts' = << >>
  /\ loginAttempts' = [ e \in Users |-> NoAttempts ]
  /\ loginPending' = [ a \in Users \X BOOLEAN |-> 0 ]
  /\ UNCHANGED << records, storedUser, token, userFaceDescriptor, faceRecognition,
                  online, clock >>

\* Time passes.
Tick ==
  /\ \E t \in Instants : t > clock /\ clock' = t
  /\ toasts' = << >>
  /\ UNCHANGED << records, todayRecord, offlineQueue, currentUser, storedUser, token,
                  userFaceDescriptor, faceRecognition, loginAttempts, loginPending,
                  online, onlineEvent, pending >>

\* The instants of the login attempts: two a second apart, and those one
\* second before, at, and one second after the end of a lockout that began
\* at the first.
AuthInstants ==
  { HMS(9, 15, 30) + d : d \in { 0, 1, LockoutTime - 1, LockoutTime, LockoutTime + 1 } }

\* Activations of Auth.handleLogin suspended at `await this.delay(1000)`.
LoginsInFlight ==
  LET RECURSIVE Sum(_)
      Sum(S) == IF S = {} THEN 0
                ELSE LET a == CHOOSE x \in S : TRUE
                     IN  loginPending[a] + Sum(S \ {a})
  IN  Sum(DOMAIN loginPending)

\* Submit of the login form with a well-formed email and a password that is
\* (correct) or is not that of the registered user: Auth.handleLogin up to
\* the delay.
LoginSubmit(email, correct) ==
  /\ currentUser = NoUser
  /\ LoginsInFlight < MaxLoginsInFlight
  /\ loginAttempts' = AfterLockCheck(loginAttempts, email, clock)
  /\ IF IsAccountLocked(loginAttempts, email, clock)
       THEN /\ toasts' = << "accountLocked" >>
            /\ loginPending' = loginPending
       ELSE /\ toasts' = << >>
            /\ loginPending' = [ loginPending EXCEPT ![<< email, correct >>] = @ + 1 ]
  /\ UNCHANGED << records, todayRecord, offlineQueue, currentUser, storedUser, token,
                  userFaceDescriptor, faceRecognition, online, onlineEvent, clock,
                  pending >>

\* The delay resolves: Auth.handleLogin from the lookup of the user on.
LoginResolve(email, correct) ==
  /\ loginPending[<< email, correct >>] > 0
  /\ loginPending' = [ loginPending EXCEPT ![<< email, correct >>] = @ - 1 ]
  /\ IF correct
       THEN /\ currentUser' = email
            /\ storedUser' = email
            /\ token' = TRUE
            /\ loginAttempts' = ClearFailedLogins(loginAttempts, email)
            /\ toasts' = << "loginSuccess" >>
       ELSE /\ loginAttempts' = RecordFailedLogin(loginAttempts, email, clock)
            /\ toasts' = IF MaxLoginAttempts - loginAttempts'[email].count > 0
                           THEN << "attemptsRemaining", "invalidCredentials" >>
                           ELSE << "invalidCredentials" >>
            /\ UNCHANGED << currentUser, storedUser, token >>
  /\ UNCHANGED << records, todayRecord, offlineQueue, userFaceDescriptor,
                  faceRecognition, online, onlineEvent, clock, pending >>

\* Time passes on the login page.
AuthTick ==
  /\ \E t \in AuthInstants : t > clock /\ clock' = t
  /\ toasts' = << >>
  /\ UNCHANGED << records, todayRecord, offlineQueue, currentUser, storedUser, token,
                  userFaceDescriptor, faceRecognition, loginAttempts, loginPending,
                  online, onlineEvent, pending >>

\* The login page: attempts, the clock, logout and the page load.
AuthNext ==
  \/ \E email \in Users, correct \in BOOLEAN : LoginSubmit(email, correct)
  \/ \E email \in Users, correct \in BOOLEAN : LoginResolve(email, correct)
  \/ AuthTick
  \/ Logout
  \/ Reload

\* The attendance handlers.
Handlers ==
  \/ TimeInClick
  \/ TimeInLocation
  \/ TimeInCamera
  \/ TimeInVerify
  \/ TimeInModal
  \/ TimeInRetry
  \/ TimeOutClick
  \/ TimeOutLocation
  \/ TimeOutCamera

\* The session, the clock and the page.
Session ==
  \/ \E u \in Users : Login(u)
  \/ Logout
  \/ LoadTodayAttendance
  \/ Reload
  \/ Tick

\* Connectivity and the drain of the offline queue.
Connectivity ==
  \/ GoOnline
  \/ GoOffline
  \/ OnlineEvent
  \/ PollSync

Next == Handlers \/ Session

Spec == Init /\ [][Next]_vars

\* The attendance page at one instant of the clock, with connectivity coming
\* and going and the offline queue drained.
SyncNext ==
  \/ Handlers
  \/ Connectivity
  \/ \E u \in Users : Login(u)
  \/ Logout
  \/ LoadTodayAttendance
  \/ Reload

SpecSync == Init /\ [][SyncNext]_vars

(* ---------------------------- statistics ------------------------------- *)

\* The month of a timestamp (getMonth and getFullYear of the local date), in
\* a calendar whose months have DaysPerMonth days.
MonthOf(t) == FormatDate(t) \div DaysPerMonth

\* Math.round(n / d) for n >= 0 and d > 0: halves round up.
MathRound(n, d) == (2 * n + d) \div (2 * d)

\* A variant of the attendance rate that truncates instead of rounding.
AttendanceRateTruncated(presentDays, totalDays) ==
  IF totalDays > 0 THEN (presentDays * 100) \div totalDays ELSE 0

\* attendanceRate of getStatistics and of getSummaryStats.
AttendanceRate(presentDays, totalDays) ==
  IF totalDays > 0 THEN MathRound(presentDays * 100, totalDays) ELSE 0

\* record.earlyLeave and record.totalWorkMinutes, absent until the time-out.
EarlyLeaveOf(r) == IF "earlyLeave" \in DOMAIN r THEN r.earlyLeave ELSE FALSE
TotalWorkMinutesOf(r) ==
  IF "totalWorkMinutes" \in DOMAIN r THEN r.totalWorkMinutes ELSE 0

\* The sum of the work minutes of the records of recs at the indices in idx.
RECURSIVE SumWorkMinutes(_, _)
SumWorkMinutes(recs, idx) ==
  IF idx = {} THEN 0
  ELSE LET i == CHOOSE j \in idx : TRUE
       IN  TotalWorkMinutesOf(recs[i]) + SumWorkMinutes(recs, idx \ {i})

\* Attendance.getStatistics at the instant now.  dateTime and timeIn of a
\* record are the same instant.
GetStatistics(recs, now) ==
  LET monthly == { i \in 1..Len(recs) : MonthOf(recs[i].timeIn) = MonthOf(now) }
      uniqueDates == { recs[i].date : i \in monthly }
      latest ==
        { i \in monthly : \A j \in monthly : recs[j].date = recs[i].date => j <= i }
      totalDays == Cardinality(uniqueDates)
      presentDays == Cardinality({ i \in latest : recs[i].status = "present" })
      totalWorkMinutes == SumWorkMinutes(recs, latest)
  IN  [ totalDays |-> totalDays,
        presentDays |-> presentDays,
        lateDays |-> Cardinality({ i \in latest : recs[i].status = "late" }),
        earlyLeaveDays |-> Cardinality({ i \in latest : EarlyLeaveOf(recs[i]) }),
        totalWorkHours |-> totalWorkMinutes \div 60,
        totalWorkMinutes |-> totalWorkMinutes % 60,
        attendanceRate |-> AttendanceRate(presentDays, totalDays) ]

\* Utils.getMonthRange: midnight of the first and of the last day of a month.
GetMonthRange(month) ==
  [ start |-> month * DaysPerMonth * SecondsPerDay,
    end |-> ((month + 1) * DaysPerMonth - 1) * SecondsPerDay ]

\* Storage.getMonthlyAttendance: the indices of the records of the month.
GetMonthlyAttendance(recs, month) ==
  { i \in 1..Len(recs) :
      /\ recs[i].timeIn >= GetMonthRange(month).start
      /\ recs[i].timeIn <= GetMonthRange(month).end }

\* Reports.getSummaryStats
GetSummaryStats(recs, month) ==
  LET monthly == GetMonthlyAttendance(recs, month)
      totalDays == Cardinality(monthly)
      presentDays == Cardinality({ i \in monthly : recs[i].status = "present" })
      totalWorkMinutes == SumWorkMinutes(recs, monthly)
  IN  [ totalDays |-> totalDays,
        presentDays |-> presentDays,
        lateDays |-> Cardinality({ i \in monthly : recs[i].status = "late" }),
        earlyLeaveDays |-> Cardinality({ i \in monthly : EarlyLeaveOf(recs[i]) }),
        totalWorkHours |-> totalWorkMinutes \div 60,
        attendanceRate |-> AttendanceRate(presentDays, totalDays) ]

\* The days of the weekly chart.
WeekDays == 7

\* Dashboard.getWeeklyChartData at the instant now: for each of the last
\* WeekDays dates, oldest first, the hours of the record that
\* records.find(r => r.date === dateStr) returns.  hours are in sixtieths
\* (totalWorkMinutes / 60 is not rounded).
GetWeeklyChartData(recs, now) ==
  [ hours |->
      [ k \in 1..WeekDays |->
          LET dateStr == FormatDate(now) - (WeekDays - k)
              record == IF \E i \in 1..Len(recs) : recs[i].date = dateStr
                          THEN recs[CHOOSE i \in 1..Len(recs) :
                                      /\ recs[i].date = dateStr
                                      /\ \A j \in 1..(i - 1) : recs[j].date # dateStr]
                          ELSE NoRecord
          IN  IF record # NoRecord /\ TotalWorkMinutesOf(record) # 0
                THEN TotalWorkMinutesOf(record)
                ELSE 0 ] ]

\* The records a store can hold for the statistics: on each day a time-in at
\* 09:15:30 still open, a time-in at 09:16:00 still open, or a time-in at
\* 09:15:30 closed at 16:29:30.
StatKinds == { "open", "openLate", "closedEarly" }

StatRecord(i, day, kind) ==
  LET timeIn == day * SecondsPerDay
                  + (IF kind = "openLate" THEN HMS(9, 16, 0) ELSE HMS(9, 15, 30))
      opened == [ id |-> i,
                  userId |-> 1,
                  date |-> FormatDate(timeIn),
                  timeIn |-> timeIn,
                  timeOut |-> null,
                  faceVerified |-> FALSE,
                  status |-> IF IsLate(FormatTime(timeIn), StartTime, LateThreshold)
                               THEN "late" ELSE "present",
                  synced |-> TRUE ]
  IN  IF kind = "closedEarly"
        THEN Spread(Spread(opened,
                           TimeOutUpdates(opened, day * SecondsPerDay + HMS(16, 29, 30))),
                    [ synced |-> TRUE ])
        ELSE opened

\* The records are stored in the order they were made: a record is made no
\* earlier than the one before it, and after that one was closed if it was.
StoredInOrder(recs) ==
  \A i \in 1..(Len(recs) - 1) :
    /\ recs[i].timeIn <= recs[i + 1].timeIn
    /\ recs[i].timeOut # null => recs[i].timeOut <= recs[i + 1].timeIn

StatStores ==
  { recs \in UNION { [ 1..n -> { StatRecord(0, d, k) : d \in 0..MaxStatDay, k \in StatKinds } ]
                       : n \in 0..MaxStatRecords } :
      StoredInOrder(recs) }

\* The page of user 1, logged in and online, over such a store, in the late
\* afternoon of a day no earlier than the last record.
InitStats ==
  /\ \E recs \in StatStores :
       records = [ i \in 1..Len(recs) |-> Spread(recs[i], [ id |-> i ]) ]
  /\ \E d \in 0..MaxStatDay :
       /\ clock = d * SecondsPerDay + HMS(16, 30, 0)
       /\ \A i \in 1..Len(records) : records[i].date <= d
  /\ todayRecord = GetTodayAttendance(records, clock)
  /\ offlineQueue = << >>
  /\ currentUser = 1
  /\ storedUser = 1
  /\ token = TRUE
  /\ userFaceDescriptor = FALSE
  /\ faceRecognition = FALSE
  /\ online = TRUE
  /\ onlineEvent = FALSE
  /\ pending = [ l \in Labels |-> 0 ]
  /\ toasts = << >>
  /\ loginAttempts = [ e \in Users |-> NoAttempts ]
  /\ loginPending = [ a \in Users \X BOOLEAN |-> 0 ]

\* The statistics are read over the store while today's record is timed out.
StatsNext ==
  \/ TimeOutClick
  \/ TimeOutLocation
  \/ LoadTodayAttendance

SpecStats == InitStats /\ [][StatsNext]_vars

(* ------------------------- the store on its own ------------------------ *)

\* The page over a store of at most MaxRecords records.
InitStorage ==
  /\ InitStats
  /\ Len(records) <= MaxRecords

\* The ids a caller passes: those of the stored records and two that no
\* stored record carries.
StorageIds == 0..(MaxRecords + 1)

\* The updates the program passes: the flag of a sync, and the object built
\* by a time-out from a record.
StorageUpdates ==
  { [ synced |-> TRUE ] }
    \cup { TimeOutUpdates(records[i], clock) : i \in 1..Len(records) }

\* One call of Storage.updateAttendanceRecord(id, updates).
UpdateRecordStep(id, updates, ok) ==
  /\ records' = UpdateAttendanceRecord(records, id, updates, ok)
  /\ UNCHANGED << todayRecord, offlineQueue, currentUser, storedUser, token,
                  userFaceDescriptor, faceRecognition, loginAttempts, loginPending,
                  online, onlineEvent, clock,
                  pending, toasts >>

UpdateRecord ==
  \E id \in StorageIds, updates \in StorageUpdates, ok \in BOOLEAN :
    UpdateRecordStep(id, updates, ok)

StorageNext == UpdateRecord

SpecStorage == InitStorage /\ [][StorageNext]_vars

SpecAuth == Init /\ [][AuthNext]_vars

\* The page just after it was loaded again with one record in the store: a
\* time-in of the logged-in user made offline, which sat in the offline queue,
\* not synced, when the page was left.  Its face was verified if a face is
\* registered; without one the camera had failed to start.
InitReloaded ==
  /\ currentUser \in Users
  /\ storedUser = currentUser
  /\ token = TRUE
  /\ faceRecognition \in BOOLEAN
  /\ userFaceDescriptor \in { FALSE, faceRecognition }
  /\ online \in BOOLEAN
  /\ onlineEvent = FALSE
  /\ clock = HMS(9, 15, 30)
  /\ records = << [ id |-> 1,
                    userId |-> currentUser,
                    date |-> FormatDate(clock),
                    timeIn |-> clock,
                    timeOut |-> null,
                    faceVerified |-> userFaceDescriptor,
                    status |-> "present",
                    synced |-> FALSE ] >>
  /\ todayRecord = records[1]
  /\ offlineQueue = << >>
  /\ pending = [ l \in Labels |-> 0 ]
  /\ toasts = << >>
  /\ loginAttempts = [ e \in Users |-> NoAttempts ]
  /\ loginPending = [ a \in Users \X BOOLEAN |-> 0 ]

SpecReloaded == InitReloaded /\ [][SyncNext]_vars

\* The store holds a record with this id that is marked synced.
StoredSynced(recs, id) ==
  \E i \in 1..Len(recs) : recs[i].id = id /\ recs[i].synced

\* A step in which a sync is attempted and fails: the immediate sync of a
\* record just persisted online, or the sync of some entry in a drain pass.
SyncFails ==
  \/ /\ Handlers
     /\ online
     /\ records' # records
     /\ ~ StoredSynced(records', todayRecord'.id)
  \/ /\ OnlineEvent \/ PollSync
     /\ \E k \in 1..Len(offlineQueue) : ~ StoredSynced(records', offlineQueue[k].id)

\* The attendance page while it is not loaded again and connectivity, once
\* up, stays up.
LiveNext ==
  \/ Handlers
  \/ GoOnline
  \/ OnlineEvent
  \/ PollSync
  \/ \E u \in Users : Login(u)

\* The browser dispatches the 'online' event and fires the interval timer,
\* connectivity comes up, and from some time on no sync fails.
SpecLive ==
  /\ Init
  /\ [][LiveNext]_vars
  /\ WF_vars(GoOnline)
  /\ WF_vars(OnlineEvent)
  /\ WF_vars(PollSync)
  /\ <>[][~ SyncFails]_vars

TypeOK ==
  /\ Len(records) <= MaxRecords
  /\ Len(offlineQueue) <= MaxQueue
  /\ InFlightIn <= MaxInflight
  /\ InFlightOut <= MaxInflight

(* ------------------------------ claims --------------------------------- *)

\* Minutes since local midnight of a timestamp.
MinutesSinceMidnight(t) == (t % SecondsPerDay) \div 60

ScheduledStartMinutes == StartTime[1] * 60 + StartTime[2]
ScheduledEndMinutes == EndTime[1] * 60 + EndTime[2]

\* The position is inside the geofence.
InsideGeofence(loc) == loc.ok /\ loc.distance <= GeoFenceRadius

\* The day-state of section 4.1, read from the store.
LatestToday == GetTodayAttendance(records, clock)
NotCheckedIn == LatestToday = NoRecord \/ LatestToday.timeOut # null

\* Record i of the store is closed.
Closed(i) == records[i].timeOut # null

\* Some step sets or changes the timeOut of stored record i.
TimedOutNow(i) == i <= Len(records') /\ records'[i].timeOut # records[i].timeOut

\* C1: a time-out when the day-state is NOT_CHECKED_IN (no record for today,
\* or the latest record for today already has timeOut set) fails with
\* NotCheckedIn, and no stored record is timed out in that state.
C1_TimeOutNotCheckedInFails ==
  [][ /\ (TimeOutClick /\ IsAuthenticated /\ NotCheckedIn)
           => (toasts' = << "notCheckedIn" >> /\ pending' = pending)
      /\ \A i \in 1..Len(records) : TimedOutNow(i) => ~ NotCheckedIn ]_vars

\* C2: each record is timed out at most once: once timeOut is set, no step
\* changes the record's timeOut, totalWorkMinutes, workHours or workMinutes.
C2_TimedOutAtMostOnce ==
  [][ \A i \in 1..Len(records) :
        Closed(i) =>
          /\ i <= Len(records')
          /\ records'[i].timeOut = records[i].timeOut
          /\ records'[i].totalWorkMinutes = records[i].totalWorkMinutes
          /\ records'[i].workHours = records[i].workHours
          /\ records'[i].workMinutes = records[i].workMinutes ]_vars

\* A time-in handler passes its last guard and goes on to save its record:
\* the position is inside the geofence and, when face recognition is on,
\* the face matched (at once, or on the retry after registration).
TimeInPersists(okSave) ==
  \/ \E loc \in LocationOutcomes :
       InsideGeofence(loc) /\ ~ faceRecognition /\ TimeInLocationStep(loc, okSave)
  \/ userFaceDescriptor /\ TimeInVerifyStep("matched", okSave)
  \/ userFaceDescriptor /\ TimeInRetryStep("matched", okSave)

\* The step appends exactly one record, the one now cached as todayRecord,
\* handed to the store with timeOut absent and synced = false, and leaves the
\* records stored before as they were.  (Online, the handler tries to sync
\* the new record at once, which may flip its stored synced flag.)
AppendsOne ==
  /\ Len(records') = Len(records) + 1
  /\ SubSeq(records', 1, Len(records)) = records
  /\ todayRecord'.timeOut = null
  /\ todayRecord'.synced = FALSE
  /\ \/ records'[Len(records')] = todayRecord'
     \/ online /\ records'[Len(records')] = Spread(todayRecord', [ synced |-> TRUE ])

\* C3: a time-in is never blocked by the day-state: the click of an
\* authenticated user always starts the handler, from NOT_CHECKED_IN and from
\* CHECKED_IN alike, and a time-in whose guards pass and whose write the store
\* accepts appends exactly one new record with timeOut absent and
\* synced = false and leaves every record stored before unchanged.
C3_TimeInAlwaysAppends ==
  [][ /\ (TimeInClick /\ IsAuthenticated)
           => pending'["in_loc"] = pending["in_loc"] + 1
      /\ (currentUser # NoUser /\ TimeInPersists(TRUE)) => AppendsOne ]_vars

\* C3 witness: a second time-in was made while the first record of the same
\* user and day was still open.
C3_Witness ==
  /\ Len(records) = 2
  /\ records[1].timeOut = null
  /\ records[1].date = records[2].date
  /\ records[1].userId = records[2].userId

\* C4: the status given at time-in is late iff the minutes since midnight of
\* the time-in exceed the scheduled start plus lateThreshold, strictly, and
\* it is present otherwise (09:15 present, 09:16 late).
C4_LateIffAfterThreshold ==
  \A i \in 1..Len(records) :
    /\ (records[i].status = "late")
         <=> (MinutesSinceMidnight(records[i].timeIn)
                > ScheduledStartMinutes + LateThreshold)
    /\ ~ Closed(i) => records[i].status \in { "present", "late" }

\* C4 witness: one record made at 09:15:30 is present, one made at 09:16:00
\* is late.
C4_Witness ==
  \E i, j \in 1..Len(records) :
    /\ records[i].timeIn % SecondsPerDay = HMS(9, 15, 30)
    /\ records[i].status = "present"
    /\ records[j].timeIn % SecondsPerDay = HMS(9, 16, 0)
    /\ records[j].status = "late"

\* C5: at a successful time-out, earlyLeave is true iff the minutes since
\* midnight of the time-out are strictly less than the scheduled end minus
\* earlyLeaveThreshold; the status becomes early_leave iff earlyLeave is true
\* and the status before was present, and is left as it was otherwise (late
\* stays late).
C5_EarlyLeaveAtTimeOut ==
  [][ \A i \in 1..Len(records) :
        TimedOutNow(i) =>
          LET early == MinutesSinceMidnight(records'[i].timeOut)
                         < ScheduledEndMinutes - EarlyLeaveThreshold
          IN  /\ records'[i].earlyLeave = early
              /\ records'[i].status =
                   IF early /\ records[i].status = "present"
                     THEN "early_leave" ELSE records[i].status ]_vars

\* C5 witness: a present record was closed early and became early_leave, and
\* a late record was closed early and stayed late.
C5_Witness ==
  \E i, j \in 1..Len(records) :
    /\ Closed(i) /\ records[i].earlyLeave /\ records[i].status = "early_leave"
    /\ Closed(j) /\ records[j].earlyLeave /\ records[j].status = "late"

\* C6: a record's status only moves towards early_leave: whenever a step
\* changes it, the new status is early_leave; it never leaves early_leave and
\* never moves between present and late.
C6_StatusOnlyEscalates ==
  [][ \A i \in 1..Len(records) :
        /\ i <= Len(records')
        /\ records'[i].status # records[i].status
             => records'[i].status = "early_leave" ]_vars

\* C6 witness: a record that became early_leave was closed a second time
\* after the early-leave window and is still early_leave.
C6_Witness ==
  \E i \in 1..Len(records) :
    /\ Closed(i)
    /\ records[i].status = "early_leave"
    /\ ~ records[i].earlyLeave

\* C7: every closed record has timeOut >= timeIn, totalWorkMinutes =
\* floor((timeOut - timeIn) / one minute) of its own timeIn and timeOut,
\* workHours = floor(totalWorkMinutes / 60), workMinutes = totalWorkMinutes
\* mod 60, hence totalWorkMinutes = 60 * workHours + workMinutes and
\* 0 <= workMinutes < 60.
C7_DurationOfOwnPair ==
  \A i \in 1..Len(records) :
    Closed(i) =>
      LET r == records[i]
      IN  /\ r.timeOut >= r.timeIn
          /\ r.totalWorkMinutes = (r.timeOut - r.timeIn) \div 60
          /\ r.workHours = r.totalWorkMinutes \div 60
          /\ r.workMinutes = r.totalWorkMinutes % 60
          /\ r.totalWorkMinutes = 60 * r.workHours + r.workMinutes
          /\ 0 <= r.workMinutes /\ r.workMinutes < 60

\* C7 witness: the second record was closed after a span that is no whole
\* number of minutes, while the first record has another timeIn.
C7_Witness ==
  /\ Len(records) = 2
  /\ Closed(2)
  /\ (records[2].timeOut - records[2].timeIn) % 60 # 0
  /\ records[2].totalWorkMinutes > 0
  /\ records[1].timeIn # records[2].timeIn

\* C8: when the caller is not authenticated, or the geofence check fails
\* (outside the radius, or the position could not be had), time-in and
\* time-out stop there: no record is created or changed, and the cached
\* today-record and the offline queue are unchanged.
C8_GuardFailureWritesNothing ==
  [][ /\ ((TimeInClick \/ TimeOutClick) /\ ~ (currentUser # NoUser /\ token))
           => UNCHANGED << records, todayRecord, offlineQueue, pending >>
      /\ \A loc \in LocationOutcomes, ok \in BOOLEAN :
           (~ InsideGeofence(loc)
              /\ (TimeInLocationStep(loc, ok) \/ TimeOutLocationStep(loc, ok)))
             => /\ UNCHANGED << records, todayRecord, offlineQueue >>
                /\ InFlight' = InFlight - 1 ]_vars

\* C8 witness: a time-out of an open record was stopped by the geofence.
C8_Witness ==
  /\ toasts = << "distanceAway", "outsideGeofence" >>
  /\ todayRecord # NoRecord
  /\ todayRecord.timeOut = null
  /\ Len(records) > 0
  /\ InFlight = 0

\* C9: with face recognition enabled, a time-in persists a record only if
\* the face verification passed in that attempt, so that every stored record
\* has faceVerified = true.
C9_EveryRecordFaceVerified ==
  faceRecognition => \A i \in 1..Len(records) : records[i].faceVerified

\* C10: the day-state is per user: a user with no stored record of their own
\* cannot time out (the attempt is rejected as not checked in), and a
\* time-out never changes a record owned by another user.
C10_DayStatePerUser ==
  [][ /\ (/\ TimeOutClick
          /\ IsAuthenticated
          /\ \A i \in 1..Len(records) : records[i].userId # currentUser)
           => toasts' = << "notCheckedIn" >>
      /\ \A i \in 1..Len(records) :
           TimedOutNow(i) => records[i].userId = currentUser ]_vars

\* C11: at most one time-in/time-out action is in flight at any time: while
\* one handler is suspended at an await, the controls are disabled and no
\* second time-in or time-out can start.
C11_AtMostOneInFlight == InFlight <= 1

\* C12: the synced flag of a stored record never goes from true back to
\* false (it is false at creation and flipped to true exactly once).
C12_SyncedFlippedOnce ==
  [][ \A i \in 1..Len(records) :
        /\ i <= Len(records')
        /\ records[i].synced => records'[i].synced ]_vars

\* A drain pass of the offline queue, by either trigger.
Drain == OnlineEvent \/ PollSync

\* The queue holds this entry.
Queued(queue, entry) == \E k \in 1..Len(queue) : queue[k] = entry

\* A handler has just persisted a record: the new or updated record is the
\* one now cached as todayRecord.
Persisted == Handlers /\ records' # records

\* C13: no offline-queue entry is dropped by a drain pass: every entry of
\* the queue is in the queue again after the pass unless its stored record
\* has been marked synced = true.
C13_NoEntryDropped ==
  [][ Drain =>
        \A k \in 1..Len(offlineQueue) :
          \/ Queued(offlineQueue', offlineQueue[k])
          \/ StoredSynced(records', offlineQueue[k].id) ]_vars

\* C16: when connectivity is down as a time-in or time-out record is
\* persisted, the record is added to the offline queue and no sync is
\* attempted: no stored synced flag is set by a handler while offline, and the
\* persisted record is stored with synced = false.
C16_OfflinePersistEnqueues ==
  [][ (Handlers /\ ~ online) =>
        /\ \A i \in 1..Len(records') :
             records'[i].synced => (i <= Len(records) /\ records[i].synced)
        /\ records' # records =>
             /\ offlineQueue' = Append(offlineQueue, todayRecord')
             /\ ~ StoredSynced(records', todayRecord'.id) ]_vars

\* C16 witness: a time-out persisted offline sits in the queue, its stored
\* record unsynced, behind the entry of the time-in.
C16_Witness ==
  /\ ~ online
  /\ Len(offlineQueue) = 2
  /\ offlineQueue[1].timeOut = null
  /\ offlineQueue[2].timeOut # null
  /\ offlineQueue[2].id = offlineQueue[1].id
  /\ ~ StoredSynced(records, offlineQueue[2].id)

\* C17: when connectivity is up as a record is persisted, a sync is attempted
\* at once; the stored record gets synced = true if it succeeds, and on a
\* sync failure the record is added to the offline queue.
C17_OnlinePersistSyncsOrEnqueues ==
  [][ (Persisted /\ online) =>
        \/ StoredSynced(records', todayRecord'.id)
        \/ Queued(offlineQueue', todayRecord') ]_vars

\* C14: every record persisted by time-in or time-out is eventually marked
\* synced = true in the store, while the page is not reloaded, the drain
\* triggers are fair, connectivity comes up and syncs succeed in the end.
C14_EveryRecordEventuallySynced ==
  \A i \in 1..MaxRecords :
    (Len(records) >= i) ~> (Len(records) >= i /\ records[i].synced)

\* A drain pass marks the first stored record synced.
DrainSyncsFirst == Drain /\ ~ records[1].synced /\ records'[1].synced

\* C15 as stated: the offline queue is process-lifetime only: a page load
\* leaves it empty whatever the store holds, and the record that was queued
\* with synced = false before the reload (the first stored record) is never
\* synced by a later drain.
C15_LostRecordNeverDrained ==
  [][ /\ Reload => offlineQueue' = << >>
      /\ ~ DrainSyncsFirst ]_vars

\* C15, amended: a page load leaves the queue empty whatever the store holds,
\* and the record that was queued with synced = false before the reload is
\* synced by a later drain only through a new entry that a time-out of that
\* record has put in the queue after the reload.
C15_LostRecordDrainedOnlyIfRequeued ==
  [][ /\ Reload => offlineQueue' = << >>
      /\ DrainSyncsFirst =>
           \E k \in 1..Len(offlineQueue) :
             /\ offlineQueue[k].id = records[1].id
             /\ offlineQueue[k].timeOut # null ]_vars

\* C15 witness: after the reload a second record was made offline and a
\* drain pass has synced it, while the record queued before the reload is
\* still open and still not synced.
C15_Witness ==
  /\ Len(records) = 2
  /\ records[1].timeOut = null
  /\ ~ records[1].synced
  /\ records[2].synced
  /\ offlineQueue = << >>
  /\ toasts = << "allSynced" >>

\* A drain pass is invoked: by the 'online' listener, or by the interval
\* callback when its guard passes.
DrainInvoked == OnlineEvent \/ (PollSync /\ online /\ Len(offlineQueue) > 0)

\* C18: a drain pass on a non-empty queue leaves in the queue exactly the
\* snapshotted entries whose sync failed, and reports success (once) iff the
\* queue is empty at the end of the pass; a drain pass on an empty queue
\* changes nothing and reports nothing.
C18_DrainPassRequeuesFailures ==
  [][ DrainInvoked =>
        IF offlineQueue = << >>
          THEN UNCHANGED << records, offlineQueue >> /\ toasts' = << >>
          ELSE /\ offlineQueue' =
                    SelectSeq(offlineQueue,
                              LAMBDA e : ~ StoredSynced(records', e.id))
               /\ toasts' = IF offlineQueue' = << >> THEN << "allSynced" >>
                            ELSE << >> ]_vars

\* The months the records of a store of the statistics can fall in.
StatMonths == 0..(MaxStatDay \div DaysPerMonth)

\* The last-inserted record of each distinct date among the records of recs
\* whose date falls in the month.
LastOfDate(recs, month) ==
  { i \in 1..Len(recs) :
      /\ recs[i].date \div DaysPerMonth = month
      /\ \A j \in 1..Len(recs) : recs[j].date = recs[i].date => j <= i }

\* The summary s of the month counts one record per distinct date, the last.
ReducedToLastOfDate(s, recs, month) ==
  /\ s.totalDays =
       Cardinality({ recs[i].date : i \in { j \in 1..Len(recs) :
                                             recs[j].date \div DaysPerMonth = month } })
  /\ s.presentDays =
       Cardinality({ i \in LastOfDate(recs, month) : recs[i].status = "present" })
  /\ s.lateDays =
       Cardinality({ i \in LastOfDate(recs, month) : recs[i].status = "late" })

\* C19: the monthly summary, of the current month and of a given month,
\* reduces the records of the month to the last-inserted record of each
\* distinct date: totalDays is the number of distinct dates, presentDays and
\* lateDays count those last records by status.
C19_SummaryOfLastRecordPerDate ==
  /\ ReducedToLastOfDate(GetStatistics(records, clock), records, MonthOf(clock))
  /\ \A month \in StatMonths :
       ReducedToLastOfDate(GetSummaryStats(records, month), records, month)

\* The rate of the summary s is 0 without days and otherwise the integer
\* nearest to 100 * presentDays / totalDays, and it lies in 0..100.
RateRounded(s) ==
  /\ s.attendanceRate \in 0..100
  /\ s.totalDays = 0 => s.attendanceRate = 0
  /\ s.totalDays > 0 =>
       /\ 2 * s.attendanceRate * s.totalDays - s.totalDays <= 200 * s.presentDays
       /\ 200 * s.presentDays < 2 * s.attendanceRate * s.totalDays + s.totalDays

\* C20: attendanceRate is 0 when totalDays = 0 and round(100 * presentDays /
\* totalDays) otherwise, and always an integer in 0..100, in the summary of
\* the current month and in the summary of a given month.
C20_AttendanceRateRounded ==
  /\ RateRounded(GetStatistics(records, clock))
  /\ \A month \in StatMonths : RateRounded(GetSummaryStats(records, month))

\* Two of three days of the current month are present: the rate rounds up.
C20_Witness ==
  LET s == GetStatistics(records, clock)
  IN  /\ s.totalDays = 3
      /\ s.presentDays = 2
      /\ s.attendanceRate = 67

\* C21: the totalWorkMinutes field of the monthly summary is the sum of the
\* totalWorkMinutes of the last record of each date of the current month.
C21_TotalWorkMinutesIsSum ==
  GetStatistics(records, clock).totalWorkMinutes =
    SumWorkMinutes(records, LastOfDate(records, MonthOf(clock)))

\* C22: the records selected for a month are exactly the stored records whose
\* date falls in that month, from its first through its last day.
C22_MonthlyRecordsOfWholeMonth ==
  \A month \in StatMonths :
    GetMonthlyAttendance(records, month) =
      { i \in 1..Len(records) : records[i].date \div DaysPerMonth = month }

\* What a call of update(id, updates) leaves behind: the number and the order
\* of the records are kept; without a record of that id the call fails and
\* the store is unchanged; with one, only the fields named in the updates
\* change, and only in one record of that id.
UpdatePost(id, updates, ok) ==
  /\ Len(records') = Len(records)
  /\ \A i \in 1..Len(records) : records'[i].id = records[i].id
  /\ (\A i \in 1..Len(records) : records[i].id # id) =>
       /\ ~ UpdateSucceeds(records, id, ok)
       /\ records' = records
  /\ (\E i \in 1..Len(records) : records[i].id = id) =>
       \E k \in 1..Len(records) :
         /\ records[k].id = id
         /\ \A i \in 1..Len(records) : i # k => records'[i] = records[i]
         /\ DOMAIN records'[k] \subseteq DOMAIN records[k] \cup DOMAIN updates
         /\ \A f \in DOMAIN records[k] \ DOMAIN updates :
              f \in DOMAIN records'[k] /\ records'[k][f] = records[k][f]
         /\ UpdateSucceeds(records, id, ok) =>
              \A f \in DOMAIN updates :
                f \in DOMAIN records'[k] /\ records'[k][f] = updates[f]

\* C23: update(id, patch) on an id that matches no stored record fails and
\* leaves the stored collection unchanged; on an id that exists it changes
\* only the patched fields of that one record and keeps the number and the
\* order of the records.
C23_UpdateNeverCreates ==
  [][ \A id \in StorageIds, updates \in StorageUpdates, ok \in BOOLEAN :
        UpdateRecordStep(id, updates, ok) => UpdatePost(id, updates, ok) ]_vars

\* An update has closed the first of two stored records and left the second
\* as it was.
C23_Witness ==
  /\ Len(records) = 2
  /\ records[1].timeOut = clock
  /\ ~ records[1].synced
  /\ records[2].timeOut = null
  /\ records[2].synced

\* A time-in handler passes its last guard and hands its record to the store
\* (also without a photo, when the camera failed to start), and a time-out
\* handler hands its updates to the store.
TimeInReachesSave(okSave) ==
  \/ TimeInPersists(okSave)
  \/ TimeInCameraStep(FALSE, okSave)

TimeOutReachesUpdate(okUpdate) ==
  \/ \E loc \in LocationOutcomes :
       InsideGeofence(loc) /\ ~ faceRecognition /\ TimeOutLocationStep(loc, okUpdate)
  \/ TimeOutCameraStep(okUpdate)

\* C24: when the write to the store fails during time-in or time-out, the
\* action fails with an error shown to the user, and the stored records, the
\* cached today-record and the offline queue are unchanged.
C24_FailedWriteSavesNothing ==
  [][ /\ (currentUser # NoUser /\ TimeInReachesSave(FALSE))
           => /\ toasts' = << "saveFailed" >>
              /\ UNCHANGED << records, todayRecord, offlineQueue >>
      /\ (todayRecord # NoRecord /\ TimeOutReachesUpdate(FALSE))
           => /\ toasts' = << "updateFailed" >>
              /\ UNCHANGED << records, todayRecord, offlineQueue >>
    ]_vars

\* C24 witness: the first time-in of a user failed at the write.
C24_Witness ==
  /\ toasts = << "saveFailed" >>
  /\ records = << >>
  /\ todayRecord = NoRecord
  /\ offlineQueue = << >>
  /\ currentUser # NoUser

\* The positions the geolocation delivers, by their distance to the office.
Positions == { loc \in LocationOutcomes : loc.ok }

\* C25: a position is inside the geofence iff its distance to the office is
\* at most the radius: at exactly the radius a time-in and a time-out go on
\* past the geofence check, and at any greater distance they stop there with
\* the distance shown and nothing written.
C25_GeofenceInsideUpToRadius ==
  [][ \A loc \in Positions, ok \in BOOLEAN :
        /\ (TimeInLocationStep(loc, ok) \/ TimeOutLocationStep(loc, ok))
             => (toasts' = << "distanceAway", "outsideGeofence" >>
                   <=> loc.distance > GeoFenceRadius)
        /\ (loc.distance > GeoFenceRadius
              /\ (TimeInLocationStep(loc, ok) \/ TimeOutLocationStep(loc, ok)))
             => /\ UNCHANGED << records, todayRecord, offlineQueue >>
                /\ InFlight' = InFlight - 1
        /\ (loc.distance <= GeoFenceRadius /\ TimeInLocationStep(loc, ok))
             => IF faceRecognition
                  THEN pending'["in_cam"] = pending["in_cam"] + 1
                  ELSE (ok /\ currentUser # NoUser) => Len(records') = Len(records) + 1
        /\ (loc.distance <= GeoFenceRadius /\ TimeOutLocationStep(loc, ok))
             => IF faceRecognition
                  THEN pending'["out_cam"] = pending["out_cam"] + 1
                  ELSE (ok /\ todayRecord # NoRecord
                          /\ \E i \in 1..Len(records) : records[i].id = todayRecord.id)
                         => todayRecord'.timeOut = clock ]_vars

\* C25 witness: without face recognition, a time-in and then a time-out of
\* the same record got past the geofence check.
C25_Witness ==
  /\ ~ faceRecognition
  /\ Len(records) = 1
  /\ records[1].timeOut # null
  /\ toasts = << "checkoutSuccess" >>

\* C26: a time-out sets timeOut only on a record whose date is the calendar
\* date at the moment of the time-out; with no record of today in the store,
\* the click on Time Out is rejected as not checked in.
C26_TimeOutOnlyOnTodaysRecord ==
  [][ /\ \A i \in 1..Len(records) :
           TimedOutNow(i) => records[i].date = FormatDate(clock)
      /\ (TimeOutClick /\ IsAuthenticated /\ LatestToday = NoRecord)
           => (toasts' = << "notCheckedIn" >> /\ pending' = pending) ]_vars

\* C27: for each of the last 7 dates the weekly chart shows the duration of
\* the last record of that date, as the monthly statistics take it, and 0
\* when there is no record of the date or that last record has no duration.
C27_WeeklyChartOfLastRecord ==
  \A k \in 1..WeekDays :
    LET date == FormatDate(clock) - (WeekDays - k)
        ofDate == { i \in 1..Len(records) : records[i].date = date }
    IN  GetWeeklyChartData(records, clock).hours[k] =
          IF ofDate = {} THEN 0
          ELSE TotalWorkMinutesOf(
                 records[CHOOSE i \in ofDate : \A j \in ofDate : j <= i])

\* Stored record i after the step is the record before it, or that record
\* with only its synced flag set.
OnlySyncedSet(i) ==
  \/ records'[i] = records[i]
  \/ records'[i] = [ records[i] EXCEPT !.synced = TRUE ]

\* C28: a sync changes only the synced field of the stored record that has
\* the id of the entry.  A drain pass keeps the number of records and sets
\* nothing but the synced flag of records whose id is in the queue, stale
\* entries included; the sync at the end of a handler leaves the record the
\* handler stored as it wrote it but for the flag, and every other record
\* untouched; and syncing an entry a second time changes nothing more.
C28_SyncSetsOnlyTheFlag ==
  [][ /\ Drain =>
           /\ Len(records') = Len(records)
           /\ \A i \in 1..Len(records) :
                /\ OnlySyncedSet(i)
                /\ records'[i] # records[i]
                     => \E k \in 1..Len(offlineQueue) :
                          offlineQueue[k].id = records[i].id
      /\ Persisted =>
           \E i \in 1..Len(records') :
             /\ records'[i].id = todayRecord'.id
             /\ \/ records'[i] = todayRecord'
                \/ online /\ records'[i] = [ todayRecord' EXCEPT !.synced = TRUE ]
             /\ \A j \in 1..Len(records) : j # i => records'[j] = records[j]
      /\ \A k \in 1..Len(offlineQueue) :
           LET once == SyncAttendance(records, offlineQueue[k], TRUE)
           IN  SyncAttendance(once, offlineQueue[k], TRUE) = once ]_vars

\* C28 witness: a drain pass has marked a closed record synced; the record as
\* the handler cached it differs from the stored one in the flag only.
C28_Witness ==
  /\ toasts = << "allSynced" >>
  /\ Len(records) = 1
  /\ records[1].timeOut # null
  /\ records[1].synced
  /\ todayRecord = [ records[1] EXCEPT !.synced = FALSE ]

\* Stored record i is open and a later record of the same date is stored.
Superseded(i) ==
  /\ records[i].timeOut = null
  /\ \E j \in (i + 1)..Len(records) : records[j].date = records[i].date

\* C29: a time-out changes exactly one stored record, the latest, which is
\* the one cached as todayRecord, and leaves every other record unchanged;
\* an open record superseded by a later time-in of the same day keeps timeOut
\* absent and gets no duration in any later step.
C29_TimeOutChangesLatestOnly ==
  [][ /\ \A i \in 1..Len(records) :
           TimedOutNow(i) =>
             /\ i = Len(records)
             /\ records[i].id = todayRecord.id
             /\ records'[i].id = todayRecord'.id
             /\ \A j \in 1..Len(records) : j # i => records'[j] = records[j]
      /\ \A i \in 1..Len(records) :
           Superseded(i) =>
             /\ records'[i].timeOut = null
             /\ "totalWorkMinutes" \notin DOMAIN records'[i] ]_vars

\* C29 witness: of two records of one day the second was timed out and the
\* first, superseded, is still open.
C29_Witness ==
  /\ Len(records) = 2
  /\ records[1].date = records[2].date
  /\ records[1].timeOut = null
  /\ "totalWorkMinutes" \notin DOMAIN records[1]
  /\ records[2].timeOut # null

\* The email is locked out: it has reached maxLoginAttempts recorded failures
\* and lockoutDuration has not elapsed since the last of them.
LockedOut(email) ==
  /\ loginAttempts[email].count >= MaxLoginAttempts
  /\ clock - loginAttempts[email].lastAttempt < LockoutDuration * 60

\* The lockout of the email has run out.
LockoutElapsed(email) ==
  /\ loginAttempts[email].count >= MaxLoginAttempts
  /\ clock - loginAttempts[email].lastAttempt >= LockoutDuration * 60

\* C30: once an email has maxLoginAttempts failed logins with no successful
\* login in between, every login attempt for it, the correct password
\* included, is rejected as locked, and leaves the failures as recorded, until
\* lockoutDuration has elapsed since the last recorded failure; the count of
\* failures goes back to zero only by a successful login or when the lockout
\* has elapsed, and it does so at the first attempt after the lockout.
C30_LockoutHoldsForItsDuration ==
  [][ \A email \in Users :
        /\ \A correct \in BOOLEAN :
             LoginSubmit(email, correct) =>
               IF LockedOut(email)
                 THEN /\ toasts' = << "accountLocked" >>
                      /\ loginPending' = loginPending
                      /\ loginAttempts' = loginAttempts
                 ELSE /\ toasts' # << "accountLocked" >>
                      /\ loginPending'[<< email, correct >>]
                           = loginPending[<< email, correct >>] + 1
                      /\ LockoutElapsed(email) => loginAttempts'[email].count = 0
        /\ (LockedOut(email)
              /\ clock' - loginAttempts[email].lastAttempt < LockoutDuration * 60)
             => /\ loginAttempts'[email].count >= MaxLoginAttempts
                /\ loginAttempts'[email].lastAttempt >= loginAttempts[email].lastAttempt
        /\ (loginAttempts[email].count > 0 /\ loginAttempts'[email].count = 0)
             => \/ LoginResolve(email, TRUE)
                \/ LockoutElapsed(email) ]_vars

====
